---------------------------- MODULE Spec2Model ----------------------------
(***************************************************************************)
(* A model of the ChatNoir fetch subsystem of touche_2021_mercutio:        *)
(*   - ChatNoirHandler (src/src/chat_noir.py): the three request methods   *)
(*     and their retry loops;                                              *)
(*   - CacheObject / CacheHandler (src/src/chat_noir_cache_handler.py);    *)
(*   - ChatNoirPipeLine (src/src/chat_noir.py): the result filter, the     *)
(*     per-query task, the batch, pruning and the cache checkpoint.        *)
(* The module holds several specifications over one set of variables; the  *)
(* variables a specification does not use keep their initial value.        *)
(***************************************************************************)
EXTENDS Integers, Sequences, FiniteSets, TLC

VARIABLES
    \* ---- Search Client (ChatNoirHandler) ----
    config_retries,     \* number_of_query_retries handed to ChatNoirHandler.__init__
    handler_retries,    \* self.__number_of_query_retries as the methods read it
    calls,              \* the Search Client calls in flight, by call id
    \* ---- Result Cache (CacheHandler / CacheObject) ----
    cache_pc,           \* "new" (constructed), "ready" (load_cache returned), "raised"
    cacheObject,        \* CacheHandler.cacheObject
    cache_file,         \* the content of cache_filename on disk
    merged,             \* history: the query texts merged into cacheObject so far
    file_merged,        \* history: the same for the object pickled in cache_file
    file_saved,         \* history: the object handed to the last pickle.dump
    last,               \* history: the last cache operation, its arguments and result
    \* ---- ChatNoirPipeLine ----
    config,             \* the configuration values ChatNoirPipeLine.__init__ read
    hr,                 \* one __handleResult coroutine on its own (filter specification)
    pipe_pc,            \* "none" (no pipeline object), "ready", "running" (inside
                        \* process, the event loop running), "aborted" (__init__ raised)
    topic,              \* topic.processing_objects of the current / last process() call
    tasks,              \* the __process_single_obj coroutines of that call and their
                        \* __handleResult sub-tasks
    batches,            \* the number of process() calls that have returned
    returned,           \* history: what the last process() call returned
    \* ---- the connector of a batch (aiohttp.TCPConnector) ----
    conn                \* per connector: the requests sent through it, those that
                        \* wait for a connection, the connections in use, and
                        \* the connections released

retryVars == <<config_retries, handler_retries, calls>>
cacheVars == <<cache_pc, cacheObject, cache_file, merged, file_merged, file_saved, last>>

filterVars == <<config, hr>>
pipeVars == <<pipe_pc, topic, tasks, batches, returned>>
connVars == <<conn>>
nonRetryVars == <<cacheVars, filterVars, pipeVars, connVars>>
nonCacheVars == <<retryVars, filterVars, pipeVars, connVars>>
nonFilterVars == <<retryVars, cacheVars, pipeVars, connVars>>
nonConnVars == <<retryVars, cacheVars, filterVars, pipeVars>>
cacheHistoryVars == <<merged, file_merged, file_saved, last>>

vars == <<retryVars, cacheVars, filterVars, pipeVars, connVars>>

(***************************************************************************)
(* Bounds                                                                  *)
(***************************************************************************)
MaxConfigRetries == 5
MaxCalls == 2
MaxRecords == 2     \* longest record list handed to add_new_query
MaxTopN == 3        \* largest top_n handed to get_cache_entry
MaxBatches == 2     \* process() calls in one behaviour
MaxRequests == 32   \* requests the coroutines of one batch send

(***************************************************************************)
(* Python values                                                           *)
(***************************************************************************)
\* A Python value a request method can hand back: None, a payload (the parsed
\* JSON or the text of the 200 response), the empty dict {} or a raised exception.
None == [kind |-> "None", body |-> ""]
Pending == [kind |-> "pending", body |-> ""]
EmptyDict == [kind |-> "dict", body |-> ""]
Raised == [kind |-> "raised", body |-> ""]
Data(b) == [kind |-> "data", body |-> b]

\* A value parsed from JSON or read from the configuration that is a number or
\* null (Python None).
JNull == [json |-> "null", num |-> 0]
JNum(n) == [json |-> "number", num |-> n]
\* str(v): str(None) is the four letters "None"
PyStr(v) == IF v.json = "null" THEN "None" ELSE ToString(v.num)

(***************************************************************************)
(* Search Client: ChatNoirHandler                                          *)
(***************************************************************************)
\* class attribute ChatNoirHandler.__number_of_query_retries
ClassNumberOfQueryRetries == 4

\* ChatNoirHandler.__init__: with a valid api key the constructor stores the key
\* and assigns number_of_query_retries to a LOCAL name, so the attribute the
\* methods read stays the class attribute.
ChatNoirHandlerInit(number_of_query_retries) == ClassNumberOfQueryRetries

Statuses == {200, 500}
Bodies == {"b1", "b2"}
Kinds == {"simple", "phrase", "document"}
\* the UUID argument of retrieve_full_document: a document id, the empty string
DocumentIds == {"u1", ""}

\* One response of the service to one HTTP attempt: a status with a body, or a
\* transport-level exception raised inside the `async with`.
Responses ==
    [exc : {FALSE}, status : {200}, body : Bodies]
        \cup [exc : {FALSE}, status : Statuses \ {200}, body : {""}]
        \cup {[exc |-> TRUE, status |-> 0, body |-> ""]}

CallIds == 1..MaxCalls

IdleCall ==
    [kind |-> "none", pc |-> "idle", query_request_counter |-> 0,
     attempts |-> 0, history |-> <<>>, result |-> Pending]

\* a counter the calls share: a call starts with what the non-200 responses
\* of the calls so far have left of the handler's budget
BeginCallSharedCounter(kind) ==
    LET NonOk(h) == Cardinality({n \in DOMAIN h :
                                    ~h[n].exc /\ h[n].status # 200})
        RECURSIVE Spent(_)
        Spent(S) == IF S = {} THEN 0
                    ELSE LET c == CHOOSE x \in S : TRUE
                         IN  NonOk(calls[c].history) + Spent(S \ {c})
    IN  [kind |-> kind, pc |-> "attempting",
         query_request_counter |-> handler_retries - Spent(CallIds),
         attempts |-> 1, history |-> <<>>, result |-> Pending]

\* Lines 341-342, 447-448, 502-503: the per-call counter, then the first attempt
\* of the `while True` loop is issued (session.post / session.get).
BeginCall(kind) ==
    [kind |-> kind, pc |-> "attempting",
     query_request_counter |-> handler_retries,
     attempts |-> 1, history |-> <<>>, result |-> Pending]

\* The body of the retry loop on one response (the same in the three methods).
RetryStep(call, resp) ==
    LET h == Append(call.history, resp) IN
    IF resp.exc
    THEN \* except Exception: log, return None
         [call EXCEPT !.pc = "failed", !.history = h, !.result = None]
    ELSE IF resp.status # 200
    THEN LET counter == call.query_request_counter - 1 IN
         IF counter <= 0
         THEN [call EXCEPT !.pc = "failed", !.history = h,
                           !.query_request_counter = counter, !.result = None]
         ELSE \* loop: the next attempt is issued at once
              [call EXCEPT !.history = h, !.query_request_counter = counter,
                           !.attempts = @ + 1]
    ELSE [call EXCEPT !.pc = "done", !.history = h, !.result = Data(resp.body)]

query_simple_search(c) ==
    /\ calls[c].pc = "idle"
    /\ calls' = [calls EXCEPT ![c] = BeginCall("simple")]
    /\ UNCHANGED <<config_retries, handler_retries, nonRetryVars>>

query_phrase_search(c) ==
    /\ calls[c].pc = "idle"
    /\ calls' = [calls EXCEPT ![c] = BeginCall("phrase")]
    /\ UNCHANGED <<config_retries, handler_retries, nonRetryVars>>

\* retrieve_full_document: the guard on the UUID comes before any request.
retrieve_full_document(c, UUID) ==
    /\ calls[c].pc = "idle"
    /\ calls' = [calls EXCEPT ![c] =
            IF Len(UUID) = 0
            THEN [IdleCall EXCEPT !.kind = "document", !.pc = "done",
                                  !.result = EmptyDict]
            ELSE BeginCall("document")]
    /\ UNCHANGED <<config_retries, handler_retries, nonRetryVars>>

simple_search_response(c, resp) ==
    /\ calls[c].pc = "attempting" /\ calls[c].kind = "simple"
    /\ calls' = [calls EXCEPT ![c] = RetryStep(calls[c], resp)]
    /\ UNCHANGED <<config_retries, handler_retries, nonRetryVars>>

phrase_search_response(c, resp) ==
    /\ calls[c].pc = "attempting" /\ calls[c].kind = "phrase"
    /\ calls' = [calls EXCEPT ![c] = RetryStep(calls[c], resp)]
    /\ UNCHANGED <<config_retries, handler_retries, nonRetryVars>>

full_document_response(c, resp) ==
    /\ calls[c].pc = "attempting" /\ calls[c].kind = "document"
    /\ calls' = [calls EXCEPT ![c] = RetryStep(calls[c], resp)]
    /\ UNCHANGED <<config_retries, handler_retries, nonRetryVars>>

(***************************************************************************)
(* Result Cache: CacheObject and CacheHandler                              *)
(***************************************************************************)
Queries == {"q1", "q2"}
UUIDs == {"u1", "u2"}

Range(f) == {f[x] : x \in DOMAIN f}
Min(a, b) == IF a <= b THEN a ELSE b
EmptyMap == [x \in {} |-> x]
\* d[k] = v on a Python dict
DictSet(d, k, v) == [x \in DOMAIN d \cup {k} |-> IF x = k THEN v ELSE d[x]]
\* the orders in which Python may iterate a set of strings
Perms(S) ==
    {p \in [1..Cardinality(S) -> S] : \A i, j \in DOMAIN p : p[i] = p[j] => i = j}

\* models.ChatNoirResult (trec_id and snippet are carried along unread)
ChatNoirResult(UUID, text, page_rank, spam_rank, score) ==
    [UUID |-> UUID, text |-> text, page_rank |-> page_rank,
     spam_rank |-> spam_rank, score |-> score, is_cleaned |-> FALSE]

\* The records handed to the cache in the cache specifications: two records
\* share an identifier and differ in score.
RecordPool ==
    {ChatNoirResult("u1", Data("b1"), JNull, JNull, 3),
     ChatNoirResult("u1", Data("b1"), JNull, JNull, 1),
     ChatNoirResult("u2", Data("b1"), JNull, JNull, 2)}

RecordLists == UNION {[1..n -> RecordPool] : n \in 0..MaxRecords}
TopNs == 0..MaxTopN

\* CacheHandler.__init__: self.cacheObject = None
NoCacheObject == [is_none |-> TRUE, query_dict |-> EmptyMap, document_dict |-> EmptyMap]
\* CacheObject.__init__
CacheObjectInit == [is_none |-> FALSE, query_dict |-> EmptyMap, document_dict |-> EmptyMap]

UUIDsOf(chat_noir_result_list) ==
    [i \in DOMAIN chat_noir_result_list |-> chat_noir_result_list[i].UUID]

\* The orders list(set(doc_uuid_list) - set(self.query_dict[query_str])) can take.
NewIdOrders(cache, query_str, chat_noir_result_list) ==
    IF query_str \in DOMAIN cache.query_dict
    THEN Perms(Range(UUIDsOf(chat_noir_result_list))
                 \ Range(cache.query_dict[query_str]))
    ELSE {<<>>}

\* add_new_query overwriting the query's id list instead of merging into it
AddNewQueryOverwrite(cache, query_str, chat_noir_result_list, order) ==
    LET doc_uuid_list == UUIDsOf(chat_noir_result_list)
        ids == Range(doc_uuid_list)
        LastOf(u) == CHOOSE i \in DOMAIN chat_noir_result_list :
                        /\ chat_noir_result_list[i].UUID = u
                        /\ \A j \in DOMAIN chat_noir_result_list :
                              chat_noir_result_list[j].UUID = u => j <= i
    IN  [cache EXCEPT
           !.document_dict =
              [u \in DOMAIN cache.document_dict \cup ids |->
                  IF u \in ids THEN chat_noir_result_list[LastOf(u)]
                  ELSE cache.document_dict[u]],
           !.query_dict = DictSet(cache.query_dict, query_str, doc_uuid_list)]

\* add_new_query that keeps the record an identifier already has in
\* document_dict (and the first record of the list for a new identifier)
AddNewQueryKeepFirst(cache, query_str, chat_noir_result_list, order) ==
    LET doc_uuid_list == UUIDsOf(chat_noir_result_list)
        ids == Range(doc_uuid_list)
        FirstOf(u) == CHOOSE i \in DOMAIN chat_noir_result_list :
                         /\ chat_noir_result_list[i].UUID = u
                         /\ \A j \in DOMAIN chat_noir_result_list :
                               chat_noir_result_list[j].UUID = u => i <= j
        document_dict ==
            [u \in DOMAIN cache.document_dict \cup ids |->
                IF u \in DOMAIN cache.document_dict
                THEN cache.document_dict[u]
                ELSE chat_noir_result_list[FirstOf(u)]]
    IN  [cache EXCEPT
           !.document_dict = document_dict,
           !.query_dict =
              IF query_str \in DOMAIN cache.query_dict
              THEN DictSet(cache.query_dict, query_str,
                           cache.query_dict[query_str] \o order)
              ELSE DictSet(cache.query_dict, query_str, doc_uuid_list)]

\* add_new_query that puts only the last record of the list into document_dict
AddNewQueryIndexesLastOnly(cache, query_str, chat_noir_result_list, order) ==
    LET doc_uuid_list == UUIDsOf(chat_noir_result_list)
        n == Len(chat_noir_result_list)
        document_dict ==
            IF n = 0 THEN cache.document_dict
            ELSE DictSet(cache.document_dict, chat_noir_result_list[n].UUID,
                         chat_noir_result_list[n])
    IN  [cache EXCEPT
           !.document_dict = document_dict,
           !.query_dict =
              IF query_str \in DOMAIN cache.query_dict
              THEN DictSet(cache.query_dict, query_str,
                           cache.query_dict[query_str] \o order)
              ELSE DictSet(cache.query_dict, query_str, doc_uuid_list)]

\* CacheObject.add_new_query; `order` is the order the set difference is listed in.
AddNewQuery(cache, query_str, chat_noir_result_list, order) ==
    LET doc_uuid_list == UUIDsOf(chat_noir_result_list)
        ids == Range(doc_uuid_list)
        LastOf(u) == CHOOSE i \in DOMAIN chat_noir_result_list :
                        /\ chat_noir_result_list[i].UUID = u
                        /\ \A j \in DOMAIN chat_noir_result_list :
                              chat_noir_result_list[j].UUID = u => j <= i
        document_dict ==
            [u \in DOMAIN cache.document_dict \cup ids |->
                IF u \in ids THEN chat_noir_result_list[LastOf(u)]
                ELSE cache.document_dict[u]]
    IN  [cache EXCEPT
           !.document_dict = document_dict,
           !.query_dict =
              IF query_str \in DOMAIN cache.query_dict
              THEN DictSet(cache.query_dict, query_str,
                           cache.query_dict[query_str] \o order)
              ELSE DictSet(cache.query_dict, query_str, doc_uuid_list)]

\* list.sort(key=operator.attrgetter("score")): stable, ascending.
RECURSIVE SortByScore(_)
SortByScore(list) ==
    IF list = <<>> THEN <<>>
    ELSE LET x == list[Len(list)]
             front == SortByScore(SubSeq(list, 1, Len(list) - 1))
             \* x goes behind every element whose score is not greater
             k == Cardinality({i \in DOMAIN front : front[i].score <= x.score})
         IN  SubSeq(front, 1, k) \o <<x>> \o SubSeq(front, k + 1, Len(front))

\* The result of a lookup: absent (None), a KeyError, or the list of records.
Absent == [absent |-> TRUE, raised |-> FALSE, records |-> <<>>]
KeyError == [absent |-> FALSE, raised |-> TRUE, records |-> <<>>]
Found(records) == [absent |-> FALSE, raised |-> FALSE, records |-> records]

\* get_chat_noir_results_by_query without the sort
GetChatNoirResultsUnsorted(cache, query_str, top_n) ==
    IF query_str \notin DOMAIN cache.query_dict THEN Absent
    ELSE LET doc_uuid_list == cache.query_dict[query_str]
             result_document_list ==
                 [i \in DOMAIN doc_uuid_list |->
                     cache.document_dict[doc_uuid_list[i]]]
         IN  Found(SubSeq(result_document_list, 1,
                          Min(top_n, Len(result_document_list))))

\* CacheObject.get_chat_noir_results_by_query
GetChatNoirResultsByQuery(cache, query_str, top_n) ==
    IF query_str \notin DOMAIN cache.query_dict THEN Absent
    ELSE LET doc_uuid_list == cache.query_dict[query_str] IN
         IF \E i \in DOMAIN doc_uuid_list :
                doc_uuid_list[i] \notin DOMAIN cache.document_dict
         THEN KeyError
         ELSE LET result_document_list ==
                      SortByScore([i \in DOMAIN doc_uuid_list |->
                                      cache.document_dict[doc_uuid_list[i]]])
              IN  Found(SubSeq(result_document_list, 1,
                               Min(top_n, Len(result_document_list))))

\* a lookup that sorts the id list of the query in place
CacheObjectAfterLookupSortedInPlace(cache, query_str, top_n) ==
    IF query_str \notin DOMAIN cache.query_dict THEN cache
    ELSE LET doc_uuid_list == cache.query_dict[query_str] IN
         IF \E i \in DOMAIN doc_uuid_list :
                doc_uuid_list[i] \notin DOMAIN cache.document_dict
         THEN cache
         ELSE [cache EXCEPT !.query_dict =
                  DictSet(@, query_str,
                      UUIDsOf(SortByScore([i \in DOMAIN doc_uuid_list |->
                                  cache.document_dict[doc_uuid_list[i]]])))]

\* The CacheObject after get_chat_noir_results_by_query: doc_uuid_list (line
\* 76) is the stored list itself and is only read; the list that is sorted
\* (line 86) and sliced (line 88) is result_document_list, built anew.
CacheObjectAfterLookup(cache, query_str, top_n) ==
    IF query_str \notin DOMAIN cache.query_dict THEN cache
    ELSE LET doc_uuid_list == cache.query_dict[query_str] IN
         [cache EXCEPT !.query_dict = DictSet(@, query_str, doc_uuid_list)]

\* The items of a dict as pickle writes them, one after the other.
RECURSIVE Items(_)
Items(d) ==
    IF DOMAIN d = {} THEN <<>>
    ELSE LET k == CHOOSE x \in DOMAIN d : TRUE IN
         <<[key |-> k, value |-> d[k]]>>
             \o Items([x \in DOMAIN d \ {k} |-> d[x]])

\* The dict pickle builds from the items it reads, one SETITEM after the other.
RECURSIVE FromItems(_)
FromItems(items) ==
    IF items = <<>> THEN EmptyMap
    ELSE DictSet(FromItems(SubSeq(items, 1, Len(items) - 1)),
                 items[Len(items)].key, items[Len(items)].value)

\* The cache file: missing, a blob pickle cannot read, or the blob pickle.dump
\* writes for self.cacheObject (None, or the two dicts of a CacheObject).
MissingFile == [kind |-> "missing", none |-> TRUE, query_dict |-> <<>>, document_dict |-> <<>>]
CorruptFile == [kind |-> "corrupt", none |-> TRUE, query_dict |-> <<>>, document_dict |-> <<>>]
Pickle(obj) ==
    [kind |-> "pickle", none |-> obj.is_none,
     query_dict |-> Items(obj.query_dict),
     document_dict |-> Items(obj.document_dict)]

\* pickle.load that restores the query index only
PickleLoadQueryDict(file) ==
    [is_none |-> file.none, query_dict |-> FromItems(file.query_dict),
     document_dict |-> EmptyMap]

\* pickle.load on a blob pickle.dump wrote
PickleLoad(file) ==
    [is_none |-> file.none, query_dict |-> FromItems(file.query_dict),
     document_dict |-> FromItems(file.document_dict)]

\* CacheHandler.load_cache: the object the handler holds afterwards, and whether
\* pickle.load raised (nothing in load_cache or its caller catches it).
LoadCache(file) ==
    IF file.kind = "missing"
    THEN [raised |-> FALSE, cacheObject |-> CacheObjectInit]
    ELSE IF file.kind = "corrupt"
    THEN [raised |-> TRUE, cacheObject |-> NoCacheObject]
    ELSE IF PickleLoad(file).is_none
    THEN [raised |-> FALSE, cacheObject |-> CacheObjectInit]
    ELSE [raised |-> FALSE, cacheObject |-> PickleLoad(file)]

NoOp ==
    [op |-> "none", query |-> "", records |-> <<>>, before_ids |-> {},
     was_new |-> FALSE, top_n |-> 0, result |-> Absent, file_kind |-> "",
     raised |-> FALSE]

\* CacheHandler(cache_filename) of a new run of the program
new_CacheHandler ==
    /\ cache_pc \in {"ready", "raised"}
    /\ cache_pc' = "new"
    /\ cacheObject' = NoCacheObject
    /\ merged' = {}
    /\ last' = [NoOp EXCEPT !.op = "new"]
    /\ UNCHANGED <<cache_file, file_merged, file_saved, nonCacheVars>>

load_cache ==
    /\ cache_pc = "new"
    /\ LET r == LoadCache(cache_file) IN
       /\ cache_pc' = IF r.raised THEN "raised" ELSE "ready"
       /\ cacheObject' = r.cacheObject
       /\ merged' = IF r.raised \/ r.cacheObject = CacheObjectInit
                    THEN {} ELSE file_merged
       /\ last' = [NoOp EXCEPT !.op = "load", !.file_kind = cache_file.kind,
                               !.raised = r.raised]
    /\ UNCHANGED <<cache_file, file_merged, file_saved, nonCacheVars>>

save_cache ==
    /\ cache_pc = "ready"
    /\ cache_file' = Pickle(cacheObject)
    /\ file_merged' = merged
    /\ file_saved' = cacheObject
    /\ last' = [NoOp EXCEPT !.op = "save"]
    /\ UNCHANGED <<cache_pc, cacheObject, merged, nonCacheVars>>

add_new_query_cache(query, chat_noir_results) ==
    /\ cache_pc = "ready"
    /\ \E order \in NewIdOrders(cacheObject, query, chat_noir_results) :
          cacheObject' = AddNewQuery(cacheObject, query, chat_noir_results, order)
    /\ merged' = merged \cup {query}
    /\ last' = [NoOp EXCEPT
                  !.op = "merge", !.query = query, !.records = chat_noir_results,
                  !.was_new = (query \notin DOMAIN cacheObject.query_dict),
                  !.before_ids = IF query \in DOMAIN cacheObject.query_dict
                                 THEN Range(cacheObject.query_dict[query]) ELSE {}]
    /\ UNCHANGED <<cache_pc, cache_file, file_merged, file_saved, nonCacheVars>>

get_cache_entry(query, top_n) ==
    /\ cache_pc = "ready"
    /\ last' = [NoOp EXCEPT
                  !.op = "lookup", !.query = query, !.top_n = top_n,
                  !.result = GetChatNoirResultsByQuery(cacheObject, query, top_n),
                  \* the records of the merge that came right before, if it was
                  \* the first merge of this query
                  !.was_new = (last.op = "merge" /\ last.was_new
                                  /\ last.query = query),
                  !.records = IF last.op = "merge" /\ last.was_new
                                    /\ last.query = query
                              THEN last.records ELSE <<>>]
    /\ cacheObject' = CacheObjectAfterLookup(cacheObject, query, top_n)
    /\ UNCHANGED <<cache_pc, cache_file, merged, file_merged, file_saved,
                   nonCacheVars>>

\* The environment: the file is cut short or overwritten with other bytes
\* (a crash while save_cache writes, a disk error).
file_damaged ==
    /\ cache_file.kind = "pickle"
    /\ cache_pc \in {"ready", "raised"}
    /\ cache_file' = CorruptFile
    /\ last' = [NoOp EXCEPT !.op = "damage"]
    /\ UNCHANGED <<cache_pc, cacheObject, merged, file_merged, file_saved, nonCacheVars>>

(***************************************************************************)
(* Result Filter and record assembly: ChatNoirPipeLine.__handleResult      *)
(***************************************************************************)
\* One entry of query_response["results"].
Hit(uuid, score, spam_rank, page_rank) ==
    [uuid |-> uuid, score |-> score, spam_rank |-> spam_rank,
     page_rank |-> page_rank]

\* `threshold != None and threshold >= 0`
FilterOn(threshold) == threshold.json # "null" /\ threshold.num >= 0

\* Lines 86-103: "rejected" (return before the fetch), "raised" (float(None)
\* raises TypeError, which leaves the coroutine) or "accepted".
HandleResultFilter(cfg, result) ==
    IF FilterOn(cfg.score_threshold) /\ result.score < cfg.score_threshold.num
    THEN "rejected"
    ELSE IF FilterOn(cfg.spam_rank_threshold)
            /\ PyStr(result.spam_rank) # "null"
            /\ result.spam_rank.json = "null"
    THEN "raised"
    ELSE IF FilterOn(cfg.spam_rank_threshold)
            /\ PyStr(result.spam_rank) # "null"
            /\ result.spam_rank.num > cfg.spam_rank_threshold.num
    THEN "rejected"
    ELSE IF FilterOn(cfg.page_rank_threshold)
            /\ PyStr(result.page_rank) # "null"
            /\ result.page_rank.json = "null"
    THEN "raised"
    ELSE IF FilterOn(cfg.page_rank_threshold)
            /\ PyStr(result.page_rank) # "null"
            /\ result.page_rank.num > cfg.page_rank_threshold.num
    THEN "rejected"
    ELSE "accepted"

\* models.Document around a ChatNoirResult (the scores of later stages unread)
Document(chat_noir_result) == [chat_noir_result |-> chat_noir_result]

\* obj.documents, a dict in insertion order: the sequence of its values, each
\* under the key chat_noir_result.UUID. documents[key] = doc keeps the place
\* of a key already there.
DocumentsSet(documents, doc) ==
    IF \E i \in DOMAIN documents :
           documents[i].chat_noir_result.UUID = doc.chat_noir_result.UUID
    THEN [i \in DOMAIN documents |->
             IF documents[i].chat_noir_result.UUID = doc.chat_noir_result.UUID
             THEN doc ELSE documents[i]]
    ELSE Append(documents, doc)

\* Lines 110-122: the record of an accepted hit and its place in obj.documents.
HandleResultStore(documents, result, result_document_text) ==
    DocumentsSet(documents,
        Document(ChatNoirResult(result.uuid, result_document_text,
                                result.page_rank, result.spam_rank,
                                result.score)))

\* What retrieve_full_document returns without a request (None: a request is made)
FullDocumentWithoutRequest(UUID) == IF Len(UUID) = 0 THEN EmptyDict ELSE Pending

\* The texts a completed retrieve_full_document call hands back.
FullDocumentResults == {None, Data("b1")}

\* A __handleResult sub-task.
SubTask(pc, result, text) == [pc |-> pc, result |-> result, text |-> text]

\* __handleResult that requests the text of a hit the filter rejects
HandleResultBeginUnfiltered(cfg, documents, result) ==
    LET verdict == HandleResultFilter(cfg, result)
        text == FullDocumentWithoutRequest(result.uuid)
    IN  IF verdict = "raised"
        THEN [sub |-> SubTask(verdict, result, Pending), documents |-> documents]
        ELSE IF text = Pending
        THEN [sub |-> SubTask("fetching", result, Pending), documents |-> documents]
        ELSE [sub |-> SubTask("stored", result, text),
              documents |-> HandleResultStore(documents, result, text)]

\* __handleResult from its start to its await (or its end): the sub-task and
\* obj.documents afterwards.
HandleResultBegin(cfg, documents, result) ==
    LET verdict == HandleResultFilter(cfg, result)
        text == FullDocumentWithoutRequest(result.uuid)
    IN  IF verdict # "accepted"
        THEN [sub |-> SubTask(verdict, result, Pending), documents |-> documents]
        ELSE IF text = Pending
        THEN [sub |-> SubTask("fetching", result, Pending), documents |-> documents]
        ELSE [sub |-> SubTask("stored", result, text),
              documents |-> HandleResultStore(documents, result, text)]

ThresholdValues == {JNull, JNum(-1), JNum(0), JNum(5)}
RankValues == {JNull, JNum(3), JNum(7)}
FilterHits ==
    {Hit("u1", sc, sp, pr) : sc \in {4, 9}, sp \in RankValues, pr \in RankValues}
        \cup {Hit("", 9, JNum(3), JNum(3))}

IdleHandleResult == [pc |-> "idle", result |-> Hit("", 0, JNull, JNull), documents |-> <<>>]

\* __handleResult up to its await: the filter, then the request for the text
handleResult(result) ==
    /\ hr.pc = "idle"
    /\ LET r == HandleResultBegin(config, hr.documents, result) IN
       hr' = [pc |-> r.sub.pc, result |-> result, documents |-> r.documents]
    /\ UNCHANGED <<config, nonFilterVars>>

\* __handleResult after the await: the record is put into obj.documents
handleResult_document(text) ==
    /\ hr.pc = "fetching"
    /\ hr' = [hr EXCEPT !.pc = "stored",
                        !.documents = HandleResultStore(@, hr.result, text)]
    /\ UNCHANGED <<config, nonFilterVars>>

(***************************************************************************)
(* Fetch Orchestrator: ChatNoirPipeLine.process                            *)
(***************************************************************************)
\* The index of the service: the hits it ranks for a query text, best first.
\* q1: a plain hit and one of spam rank 7; q2: a hit of unknown spam rank whose
\* document is also a hit of q1, and a hit without a document identifier.
ServiceRanking(query_text) ==
    IF query_text = "q1"
    THEN <<Hit("u1", 9, JNum(3), JNull), Hit("u2", 4, JNum(7), JNull)>>
    ELSE <<Hit("u2", 5, JNull, JNull), Hit("", 3, JNum(3), JNull)>>

\* What query_simple_search / query_phrase_search hand back: None, the parsed
\* body of a 200 response with an "error" key, or one with "results".
SearchNone == [kind |-> "None", results |-> <<>>]
SearchError == [kind |-> "error", results |-> <<>>]
SearchResults(results) == [kind |-> "results", results |-> results]

\* The responses to a search of `size` results per page: the service ranks at
\* most `size` hits, or finds nothing.
SearchOutcomes(query_text, size) ==
    LET ranking == ServiceRanking(query_text) IN
    {SearchNone, SearchError, SearchResults(<<>>),
     SearchResults(SubSeq(ranking, 1, Min(size, Len(ranking))))}

\* models.Query and models.ProcessingObject
ProcessingObject(query_text, is_phrase_search) ==
    [query |-> [query_text |-> query_text, is_phrase_search |-> is_phrase_search],
     documents |-> <<>>]

\* The topics handed to process(): one query; two queries, one a phrase search;
\* the same query text twice.
Topics ==
    {<<ProcessingObject("q1", FALSE)>>,
     <<ProcessingObject("q1", FALSE), ProcessingObject("q2", TRUE)>>,
     <<ProcessingObject("q2", FALSE), ProcessingObject("q2", FALSE)>>}

\* The configurations a run is started with.
PipeConfigs ==
    [docs_per_query : {1, 2}, score_threshold : {JNull},
     spam_rank_threshold : {JNull, JNum(5)}, page_rank_threshold : {JNull},
     is_cache_enabled : BOOLEAN]

\* gather(*sub_tasks): the sub-tasks start in the order of result_list.
RECURSIVE StartSubTasks(_, _, _)
StartSubTasks(cfg, documents, result_list) ==
    IF result_list = <<>> THEN [subs |-> <<>>, documents |-> documents]
    ELSE LET front == StartSubTasks(cfg, documents,
                          SubSeq(result_list, 1, Len(result_list) - 1))
             r == HandleResultBegin(cfg, front.documents,
                                    result_list[Len(result_list)])
         IN  [subs |-> Append(front.subs, r.sub), documents |-> r.documents]

\* a cache hit that builds a new record from the fields of the cached one
RECURSIVE PutCachedAsNew(_, _)
PutCachedAsNew(documents, cache_result) ==
    IF cache_result = <<>> THEN documents
    ELSE LET cresult == cache_result[Len(cache_result)] IN
         DocumentsSet(PutCachedAsNew(documents,
                          SubSeq(cache_result, 1, Len(cache_result) - 1)),
                      Document(ChatNoirResult(cresult.UUID, cresult.text,
                                              cresult.page_rank,
                                              cresult.spam_rank, cresult.score)))

\* Lines 143-149: obj.documents[cresult.UUID] = Document(cresult) per cached record
RECURSIVE PutCached(_, _)
PutCached(documents, cache_result) ==
    IF cache_result = <<>> THEN documents
    ELSE DocumentsSet(PutCached(documents,
                                SubSeq(cache_result, 1, Len(cache_result) - 1)),
                      Document(cache_result[Len(cache_result)]))

\* A __process_single_obj coroutine: where it stands, what its search call
\* handed back ("" before that) and its sub-tasks.
Task(pc, query_response, subs) ==
    [pc |-> pc, query_response |-> query_response, subs |-> subs]

\* a cache check that hands on only the cached records that pass the filter
ProcessSingleObjBeginFiltered(cfg, cache, obj) ==
    LET cache_result ==
            IF cfg.is_cache_enabled
            THEN GetChatNoirResultsByQuery(cache, obj.query.query_text,
                                           cfg.docs_per_query)
            ELSE Absent
        passing == SelectSeq(cache_result.records,
                       LAMBDA c : HandleResultFilter(cfg,
                                      Hit(c.UUID, c.score, c.spam_rank,
                                          c.page_rank)) = "accepted")
    IN  IF cache_result.raised
        THEN [task |-> Task("raised", "", <<>>), obj |-> obj]
        ELSE IF ~cache_result.absent
        THEN [task |-> Task("cached", "", <<>>),
              obj |-> [obj EXCEPT !.documents = PutCached(@, passing)]]
        ELSE [task |-> Task("searching", "", <<>>), obj |-> obj]

\* __process_single_obj from its start to its first await (or its return): the
\* cache check of lines 130-150, else the search request is sent.
ProcessSingleObjBegin(cfg, cache, obj) ==
    LET cache_result ==
            IF cfg.is_cache_enabled
            THEN GetChatNoirResultsByQuery(cache, obj.query.query_text,
                                           cfg.docs_per_query)
            ELSE Absent
    IN  IF cache_result.raised
        THEN [task |-> Task("raised", "", <<>>), obj |-> obj]
        ELSE IF ~cache_result.absent
        THEN [task |-> Task("cached", "", <<>>),
              obj |-> [obj EXCEPT !.documents =
                                     PutCached(@, cache_result.records)]]
        ELSE [task |-> Task("searching", "", <<>>), obj |-> obj]

\* pruning that never examines the last document of the map
PruneAllButLast(documents) ==
    IF documents = <<>> THEN <<>>
    ELSE Append(SelectSeq(SubSeq(documents, 1, Len(documents) - 1),
                          LAMBDA doc : doc.chat_noir_result.text # None),
                documents[Len(documents)])

\* Lines 229-240: the documents whose text is None are dropped.
Prune(documents) ==
    SelectSeq(documents, LAMBDA doc : doc.chat_noir_result.text # None)

\* a gather that takes a task waiting for its sub-tasks for a finished one
TaskSettledOrGathering(task) == task.pc # "searching"
\* gather(*tasks, return_exceptions=True) of line 224 waits for every task
TaskSettled(task) == task.pc \in {"raised", "cached", "skipped", "returned"}
\* a gather that does not take a raised sub-task for a finished one
SubTaskSettledUnlessRaised(sub) == sub.pc \in {"rejected", "stored"}
SubTaskSettled(sub) == sub.pc \in {"rejected", "raised", "stored"}
\* a gather that ends with the first sub-task that raises or comes back
\* without a text
SubTasksGatheredUnlessFailed(subs) ==
    \/ \E k \in DOMAIN subs :
          \/ subs[k].pc = "raised"
          \/ subs[k].pc = "stored" /\ subs[k].text = None
    \/ \A k \in DOMAIN subs : SubTaskSettled(subs[k])
\* gather(*sub_tasks, return_exceptions=True) of line 186 waits for every
\* sub-task, the ones that raised included
SubTasksGathered(subs) == \A k \in DOMAIN subs : SubTaskSettled(subs[k])

\* ChatNoirPipeLine.__init__: the configuration is read, the cache loaded.
ChatNoirPipeLine_init(cfg) ==
    /\ pipe_pc = "none"
    /\ config' = cfg
    /\ IF cfg.is_cache_enabled
       THEN LET r == LoadCache(cache_file) IN
            /\ cacheObject' = r.cacheObject
            /\ cache_pc' = IF r.raised THEN "raised" ELSE "ready"
            /\ pipe_pc' = IF r.raised THEN "aborted" ELSE "ready"
       ELSE /\ cacheObject' = NoCacheObject
            /\ cache_pc' = "new"
            /\ pipe_pc' = "ready"
    /\ topic' = <<>>
    /\ tasks' = <<>>
    /\ UNCHANGED <<cache_file, cacheHistoryVars, hr, batches, returned, retryVars, connVars>>

\* process(topic) up to the first suspension of the event loop: every
\* __process_single_obj coroutine has run to its first await or returned.
process_begin(t) ==
    /\ pipe_pc = "ready"
    /\ batches < MaxBatches
    /\ pipe_pc' = "running"
    /\ LET begun == [i \in DOMAIN t |->
                        ProcessSingleObjBegin(config, cacheObject, t[i])] IN
       /\ topic' = [i \in DOMAIN t |-> begun[i].obj]
       /\ tasks' = [i \in DOMAIN t |-> begun[i].task]
    /\ UNCHANGED <<config, hr, batches, returned, cacheVars, retryVars, connVars>>

\* a task that takes a response with an error indicator for one without hits
ProcessSingleObjResumeErrorAsEmpty(cfg, obj, query_response) ==
    IF query_response.kind = "None"
    THEN [task |-> Task("skipped", query_response.kind, <<>>), obj |-> obj]
    ELSE LET r == StartSubTasks(cfg, obj.documents, query_response.results) IN
         [task |-> Task("gathering", query_response.kind, r.subs),
          obj |-> [obj EXCEPT !.documents = r.documents]]

\* __process_single_obj that takes None and an error response for an empty
\* result list
ProcessSingleObjResumeUnchecked(cfg, obj, query_response) ==
    LET r == StartSubTasks(cfg, obj.documents, query_response.results) IN
    [task |-> Task("gathering", query_response.kind, r.subs),
     obj |-> [obj EXCEPT !.documents = r.documents]]

\* __process_single_obj from the return of its search call to its next await
\* (or its return): lines 170-186.
ProcessSingleObjResume(cfg, obj, query_response) ==
    IF query_response.kind # "results"
    THEN [task |-> Task("skipped", query_response.kind, <<>>), obj |-> obj]
    ELSE LET r == StartSubTasks(cfg, obj.documents, query_response.results) IN
         [task |-> Task("gathering", query_response.kind, r.subs),
          obj |-> [obj EXCEPT !.documents = r.documents]]

\* The search call of task i returns.
search_response(i, query_response) ==
    /\ pipe_pc = "running"
    /\ tasks[i].pc = "searching"
    /\ LET r == ProcessSingleObjResume(config, topic[i], query_response) IN
       /\ tasks' = [tasks EXCEPT ![i] = r.task]
       /\ topic' = [topic EXCEPT ![i] = r.obj]
    /\ UNCHANGED <<pipe_pc, config, hr, batches, returned, cacheVars, retryVars, connVars>>

\* retrieve_full_document of sub-task k of task i returns: lines 106-122.
document_response(i, k, text) ==
    /\ pipe_pc = "running"
    /\ tasks[i].pc = "gathering"
    /\ tasks[i].subs[k].pc = "fetching"
    /\ tasks' = [tasks EXCEPT ![i].subs[k].pc = "stored",
                              ![i].subs[k].text = text]
    /\ topic' = [topic EXCEPT ![i].documents =
                    HandleResultStore(@, tasks[i].subs[k].result, text)]
    /\ UNCHANGED <<pipe_pc, config, hr, batches, returned, cacheVars, retryVars, connVars>>

\* The gather of task i is complete: lines 188-195, then the coroutine returns.
task_return(i) ==
    /\ pipe_pc = "running"
    /\ tasks[i].pc = "gathering"
    /\ SubTasksGathered(tasks[i].subs)
    /\ tasks' = [tasks EXCEPT ![i].pc = "returned"]
    /\ IF config.is_cache_enabled
       THEN LET chat_noir_results ==
                    [d \in DOMAIN topic[i].documents |->
                        topic[i].documents[d].chat_noir_result]
                query == topic[i].query.query_text
            IN  \E order \in NewIdOrders(cacheObject, query, chat_noir_results) :
                   cacheObject' = AddNewQuery(cacheObject, query,
                                              chat_noir_results, order)
       ELSE UNCHANGED cacheObject
    /\ UNCHANGED <<pipe_pc, topic, config, hr, batches, returned, cache_pc, cache_file,
                   cacheHistoryVars, retryVars, connVars>>

\* History of a process() call that has returned: with caching enabled the
\* number of documents asked for per query and, per processing object, its query
\* text, how its task ended and its documents; nothing for a call without cache.
Uncached == [is_cache_enabled |-> FALSE, docs_per_query |-> 0, objs |-> <<>>]
Returned(cfg, processing_objects, process_single_obj_tasks) ==
    IF ~cfg.is_cache_enabled THEN Uncached
    ELSE [is_cache_enabled |-> TRUE, docs_per_query |-> cfg.docs_per_query,
          objs |-> [i \in DOMAIN processing_objects |->
                      [query_text |-> processing_objects[i].query.query_text,
                       pc |-> process_single_obj_tasks[i].pc,
                       documents |-> processing_objects[i].documents]]]

\* a checkpoint that does not ask whether caching is enabled
CheckpointUnconditional(cfg, cache, file) == Pickle(cache)

\* a checkpoint that writes nothing
CheckpointSkipped(cfg, cache, file) == file

\* Lines 243-244 and 251-252: `if self.is_cache_enabled: save_cache()`; the
\* content of the cache file afterwards.
Checkpoint(cfg, cache, file) ==
    IF cfg.is_cache_enabled THEN Pickle(cache) ELSE file

\* run_until_complete returns: pruning (lines 229-240), the checkpoint (lines
\* 242-244), return topic.
process_end ==
    /\ pipe_pc = "running"
    /\ \A i \in DOMAIN tasks : TaskSettled(tasks[i])
    /\ topic' = [i \in DOMAIN topic |->
                    [topic[i] EXCEPT !.documents = Prune(@)]]
    /\ cache_file' = Checkpoint(config, cacheObject, cache_file)
    /\ pipe_pc' = "ready"
    /\ batches' = batches + 1
    /\ returned' = Returned(config, topic', tasks)
    /\ UNCHANGED <<tasks, config, hr, cache_pc, cacheObject, cacheHistoryVars,
                   retryVars, connVars>>

\* cleanup() at the end of the run; the next run builds a new pipeline object.
cleanup ==
    /\ pipe_pc = "ready"
    /\ cache_file' = Checkpoint(config, cacheObject, cache_file)
    /\ pipe_pc' = "none"
    /\ UNCHANGED <<topic, tasks, config, hr, batches, returned, cache_pc, cacheObject,
                   cacheHistoryVars, retryVars, connVars>>

(***************************************************************************)
(* The connection budget of a batch: fetch_results                         *)
(***************************************************************************)
\* aiohttp.TCPConnector(limit=30, limit_per_host=30)
ConnectorLimit == 30
ConnectorLimitPerHost == 30

\* The __process_single_obj tasks of a batch (each with its sub-tasks) and the
\* connectors there could be: one per task at most.
Coroutines == {1, 2}
Connectors == Coroutines

\* a session, and with it a connector, of its own for every task
SessionConnectorPerTask(task) == task

\* Lines 211-221: one connector, one session over it, handed to every task.
SessionConnector(task) == 1

\* The connector hands out a connection while fewer than `limit` are in use,
\* and fewer than `limit_per_host` to the host; every request of the handler
\* goes to the one host of __base_api_url.
CanAcquire(acquired) ==
    acquired < ConnectorLimit /\ acquired < ConnectorLimitPerHost

ConnInit ==
    [c \in Connectors |-> [sent |-> 0, waiting |-> 0, acquired |-> 0, released |-> 0]]

\* A coroutine of the batch enters `async with session.post(...)` or
\* `async with session.get(...)`: it gets a connection or waits for one.
send_request(task) ==
    /\ LET c == SessionConnector(task) IN
       /\ conn[c].sent < MaxRequests
       /\ conn' = [conn EXCEPT
                     ![c].sent = @ + 1,
                     ![c].acquired = IF CanAcquire(conn[c].acquired) THEN @ + 1 ELSE @,
                     ![c].waiting = IF CanAcquire(conn[c].acquired) THEN @ ELSE @ + 1]
    /\ UNCHANGED nonConnVars

\* A coroutine leaves its `async with` block (the response was handled, or an
\* exception left the block): its connection is released and the request that
\* has waited longest gets it.
release_connection(c) ==
    /\ conn[c].acquired > 0
    /\ conn' = [conn EXCEPT
                  ![c].released = @ + 1,
                  ![c].acquired = IF conn[c].waiting > 0 THEN @ ELSE @ - 1,
                  ![c].waiting = IF conn[c].waiting > 0 THEN @ - 1 ELSE @]
    /\ UNCHANGED nonConnVars

(***************************************************************************)
(* The search call of a task: __process_single_obj awaits the Search       *)
(* Client (lines 161-177)                                                  *)
(***************************************************************************)
\* The body of a 200 response that parses to a dict with an "error" key.
ErrorBody == "error"

\* The responses to an attempt of a search call.
SearchResponses ==
    Responses \cup {[exc |-> FALSE, status |-> 200, body |-> ErrorBody]}

\* response.json() of the body of a search response as __process_single_obj
\* reads it: an "error" key, or "results" (body "b1": the ranking of the
\* service, body "b2": no hit).
ParseSearchBody(body, query_text, size) ==
    LET ranking == ServiceRanking(query_text) IN
    IF body = ErrorBody THEN SearchError
    ELSE IF body = "b1"
    THEN SearchResults(SubSeq(ranking, 1, Min(size, Len(ranking))))
    ELSE SearchResults(<<>>)

\* query_response of line 161/165: what the search call returned.
QueryResponse(result, query_text, size) ==
    IF result = None THEN SearchNone
    ELSE ParseSearchBody(result.body, query_text, size)

\* The search call of task i is call i of the handler: it is made while the
\* task waits for it, by the method obj.query.is_phrase_search selects.
search_call(i) ==
    /\ pipe_pc = "running"
    /\ i \in DOMAIN tasks
    /\ tasks[i].pc = "searching"
    /\ IF topic[i].query.is_phrase_search
       THEN query_phrase_search(i)
       ELSE query_simple_search(i)

\* The search call of task i has returned and the task goes on (lines 170-186).
search_returns(i) ==
    /\ pipe_pc = "running"
    /\ tasks[i].pc = "searching"
    /\ calls[i].pc \in {"done", "failed"}
    /\ LET query_response ==
               QueryResponse(calls[i].result, topic[i].query.query_text,
                             config.docs_per_query)
           r == ProcessSingleObjResume(config, topic[i], query_response)
       IN  /\ tasks' = [tasks EXCEPT ![i] = r.task]
           /\ topic' = [topic EXCEPT ![i] = r.obj]
    /\ calls' = [calls EXCEPT ![i] = IdleCall]
    /\ UNCHANGED <<pipe_pc, config, hr, batches, returned, cacheVars,
                   config_retries, handler_retries, connVars>>

(***************************************************************************)
(* The stage after the fetch: DocumentCleaningPipeline.process             *)
(***************************************************************************)
\* __clean_html_text: soup.get_text(), the text of the page without its tags
CleanHtmlText(text) == IF text = Data("b1") THEN Data("t1") ELSE text

\* doc_cleaning.py lines 32-41 on one ChatNoirResult: a record that is cleaned
\* already or has no text is left alone.
CleanedResult(c) ==
    IF c.is_cleaned \/ c.text = None THEN c
    ELSE [c EXCEPT !.text = CleanHtmlText(@), !.is_cleaned = TRUE]

\* The cleaning stage works on the topic process() has returned. It assigns to
\* the ChatNoirResult objects of obj.documents, and these are the objects the
\* cache holds: a task hands the objects of obj.documents to the merge (line
\* 192) and a cache hit puts the objects of the cache into obj.documents (line
\* 147, no copy). The texts are the pages of the service.
doc_cleaning ==
    /\ pipe_pc = "ready"
    /\ batches > 0
    /\ \A i \in DOMAIN topic : \A d \in DOMAIN topic[i].documents :
          topic[i].documents[d].chat_noir_result.text.kind = "data"
    /\ LET shared == UNION {{topic[i].documents[d].chat_noir_result :
                               d \in DOMAIN topic[i].documents} :
                           i \in DOMAIN topic}
           document_dict == cacheObject.document_dict
       IN  /\ topic' = [i \in DOMAIN topic |->
                          [topic[i] EXCEPT !.documents =
                              [d \in DOMAIN topic[i].documents |->
                                  Document(CleanedResult(
                                      topic[i].documents[d].chat_noir_result))]]]
           /\ cacheObject' =
                 [cacheObject EXCEPT !.document_dict =
                     [u \in DOMAIN document_dict |->
                         IF document_dict[u] \in shared
                         THEN CleanedResult(document_dict[u])
                         ELSE document_dict[u]]]
    /\ topic' # topic
    /\ UNCHANGED <<pipe_pc, tasks, config, hr, batches, returned, cache_pc,
                   cache_file, cacheHistoryVars, retryVars, connVars>>

(***************************************************************************)
(* Specifications                                                          *)
(***************************************************************************)
RetryIdle ==
    /\ config_retries = ClassNumberOfQueryRetries
    /\ handler_retries = ChatNoirHandlerInit(config_retries)
    /\ calls = [c \in CallIds |-> IdleCall]

CacheIdle ==
    /\ cache_pc = "new"
    /\ cacheObject = NoCacheObject
    /\ cache_file = MissingFile
    /\ merged = {}
    /\ file_merged = {}
    /\ file_saved = NoCacheObject
    /\ last = NoOp

ConfigIdle ==
    [docs_per_query |-> 100, score_threshold |-> JNull,
     spam_rank_threshold |-> JNull, page_rank_threshold |-> JNull,
     is_cache_enabled |-> FALSE]

FilterIdle ==
    /\ config = ConfigIdle
    /\ hr = IdleHandleResult

PipeIdle ==
    /\ pipe_pc = "none"
    /\ topic = <<>>
    /\ tasks = <<>>
    /\ batches = 0
    /\ returned = Uncached

ConnIdle == conn = ConnInit

InitRetry ==
    /\ config_retries \in 1..MaxConfigRetries
    /\ handler_retries = ChatNoirHandlerInit(config_retries)
    /\ calls = [c \in CallIds |-> IdleCall]
    /\ CacheIdle
    /\ FilterIdle
    /\ PipeIdle
    /\ ConnIdle

NextRetry ==
    \/ \E c \in CallIds : query_simple_search(c)
    \/ \E c \in CallIds : query_phrase_search(c)
    \/ \E c \in CallIds, u \in DocumentIds : retrieve_full_document(c, u)
    \/ \E c \in CallIds, r \in Responses : simple_search_response(c, r)
    \/ \E c \in CallIds, r \in Responses : phrase_search_response(c, r)
    \/ \E c \in CallIds, r \in Responses : full_document_response(c, r)

SpecRetry == InitRetry /\ [][NextRetry]_vars

\* The in-memory cache: a fresh CacheObject, then any merges and lookups.
InitCache ==
    /\ RetryIdle
    /\ FilterIdle
    /\ PipeIdle
    /\ ConnIdle
    /\ cache_pc = "ready"
    /\ cacheObject = CacheObjectInit
    /\ cache_file = MissingFile
    /\ merged = {}
    /\ file_merged = {}
    /\ file_saved = NoCacheObject
    /\ last = NoOp

NextCache ==
    \/ \E q \in Queries, R \in RecordLists : add_new_query_cache(q, R)
    \/ \E q \in Queries, n \in TopNs : get_cache_entry(q, n)

SpecCache == InitCache /\ [][NextCache]_vars

\* The cache across runs of the program. The file a first run finds: none, an
\* unreadable one, or a pickled None.
PersistQueries == {"q1"}
PersistLists == {<<>>} \cup {<<r>> : r \in RecordPool}

InitPersist ==
    /\ RetryIdle
    /\ FilterIdle
    /\ PipeIdle
    /\ ConnIdle
    /\ cache_pc = "new"
    /\ cacheObject = NoCacheObject
    /\ cache_file \in {MissingFile, CorruptFile, Pickle(NoCacheObject)}
    /\ merged = {}
    /\ file_merged = {}
    /\ file_saved = NoCacheObject
    /\ last = NoOp

NextPersist ==
    \/ new_CacheHandler
    \/ load_cache
    \/ save_cache
    \/ \E q \in PersistQueries, R \in PersistLists : add_new_query_cache(q, R)
    \/ \E q \in PersistQueries, n \in TopNs : get_cache_entry(q, n)
    \/ file_damaged

SpecPersist == InitPersist /\ [][NextPersist]_vars

\* One hit handed to __handleResult under any combination of thresholds.
InitFilter ==
    /\ RetryIdle
    /\ CacheIdle
    /\ PipeIdle
    /\ ConnIdle
    /\ config \in [docs_per_query : {100}, score_threshold : ThresholdValues,
                   spam_rank_threshold : ThresholdValues,
                   page_rank_threshold : ThresholdValues,
                   is_cache_enabled : {FALSE}]
    /\ hr = IdleHandleResult

NextFilter ==
    \/ \E result \in FilterHits : handleResult(result)
    \/ \E text \in FullDocumentResults : handleResult_document(text)

SpecFilter == InitFilter /\ [][NextFilter]_vars

\* Runs of the pipeline: __init__, process() per topic, cleanup(), and again.
\* The first run finds no cache file or an unreadable one.
Init ==
    /\ RetryIdle
    /\ FilterIdle
    /\ PipeIdle
    /\ ConnIdle
    /\ cache_pc = "new"
    /\ cacheObject = NoCacheObject
    /\ cache_file \in {MissingFile, CorruptFile}
    /\ merged = {}
    /\ file_merged = {}
    /\ file_saved = NoCacheObject
    /\ last = NoOp

Next ==
    \/ \E cfg \in PipeConfigs : ChatNoirPipeLine_init(cfg)
    \/ \E t \in Topics : process_begin(t)
    \/ \E i \in DOMAIN tasks :
          \E r \in SearchOutcomes(topic[i].query.query_text,
                                  config.docs_per_query) : search_response(i, r)
    \/ \E i \in DOMAIN tasks : \E k \in DOMAIN tasks[i].subs :
          \E text \in FullDocumentResults : document_response(i, k, text)
    \/ \E i \in DOMAIN tasks : task_return(i)
    \/ process_end
    \/ cleanup

Spec == Init /\ [][Next]_vars

\* The requests of one batch through its connector.
InitConn ==
    /\ RetryIdle
    /\ CacheIdle
    /\ FilterIdle
    /\ PipeIdle
    /\ conn = ConnInit

NextConn ==
    \/ \E task \in Coroutines : send_request(task)
    \/ \E c \in Connectors : release_connection(c)

SpecConn == InitConn /\ [][NextConn]_vars

\* Every request that holds a connection ends (with a response or an exception).
FairSpecConn ==
    SpecConn /\ \A c \in Connectors : WF_vars(release_connection(c))

\* Every attempt eventually receives a response.
FairSpecRetry ==
    /\ SpecRetry
    /\ \A c \in CallIds :
          /\ WF_vars(\E r \in Responses : simple_search_response(c, r))
          /\ WF_vars(\E r \in Responses : phrase_search_response(c, r))
          /\ WF_vars(\E r \in Responses : full_document_response(c, r))

\* Batches of one query whose search is made by the Search Client.
SearchTopics ==
    {<<ProcessingObject("q1", FALSE)>>, <<ProcessingObject("q2", TRUE)>>}
SearchConfigs ==
    {cfg \in PipeConfigs :
        cfg.docs_per_query = 2 /\ cfg.spam_rank_threshold = JNull}

NextSearch ==
    \/ \E cfg \in SearchConfigs : ChatNoirPipeLine_init(cfg)
    \/ \E t \in SearchTopics : process_begin(t)
    \/ \E i \in CallIds : search_call(i)
    \/ \E c \in CallIds, r \in SearchResponses : simple_search_response(c, r)
    \/ \E c \in CallIds, r \in SearchResponses : phrase_search_response(c, r)
    \/ \E i \in DOMAIN tasks : search_returns(i)
    \/ \E i \in DOMAIN tasks : \E k \in DOMAIN tasks[i].subs :
          \E text \in FullDocumentResults : document_response(i, k, text)
    \/ \E i \in DOMAIN tasks : task_return(i)
    \/ process_end
    \/ cleanup

SpecSearch == Init /\ [][NextSearch]_vars

\* Runs of the pipeline with the cleaning stage after each process(): topics
\* of one query whose hits all have a document identifier.
CleanTopics == {<<ProcessingObject("q1", FALSE)>>}
CleanConfigs == {cfg \in PipeConfigs : cfg.spam_rank_threshold = JNull}

NextClean ==
    \/ \E cfg \in CleanConfigs : ChatNoirPipeLine_init(cfg)
    \/ \E t \in CleanTopics : process_begin(t)
    \/ \E i \in DOMAIN tasks :
          \E r \in SearchOutcomes(topic[i].query.query_text,
                                  config.docs_per_query) : search_response(i, r)
    \/ \E i \in DOMAIN tasks : \E k \in DOMAIN tasks[i].subs :
          \E text \in FullDocumentResults : document_response(i, k, text)
    \/ \E i \in DOMAIN tasks : task_return(i)
    \/ process_end
    \/ doc_cleaning
    \/ cleanup

SpecClean == Init /\ [][NextClean]_vars

(***************************************************************************)
(* Claims about the Search Client                                          *)
(***************************************************************************)
FirstThreeFail(h) ==
    /\ Len(h) >= 3
    /\ \A i \in 1..3 : ~h[i].exc /\ h[i].status = 500

\* C1: responses 500, 500, 500, 200: with a configured retry budget of 4 the
\* call returns the 4th response's data; with a configured budget of 3 the call
\* ends after the third failure and returns None.
C1_ConfiguredBudgetDecides ==
    \A c \in CallIds :
        LET h == calls[c].history IN
        /\ (config_retries = 4 /\ FirstThreeFail(h) /\ Len(h) = 4
                /\ ~h[4].exc /\ h[4].status = 200)
              => calls[c].result = Data(h[4].body)
        /\ (config_retries = 3 /\ FirstThreeFail(h))
              => /\ Len(h) = 3
                 /\ calls[c].pc = "failed"
                 /\ calls[c].result = None

\* C2: every call issues at most as many HTTP attempts as the configured retry
\* budget, a 200 response ends it with that response's data, exhaustion ends it
\* with None, and no call ends with an exception.
C2_RetryStateMachine ==
    \A c \in CallIds :
        LET call == calls[c]
            h == call.history IN
        /\ call.attempts <= config_retries
        /\ call.result # Raised
        /\ (call.pc = "done" /\ Len(h) > 0)
              => /\ ~h[Len(h)].exc /\ h[Len(h)].status = 200
                 /\ call.result = Data(h[Len(h)].body)
        /\ call.pc = "failed" => call.result = None

(***************************************************************************)
(* Claims about the Result Cache                                           *)
(***************************************************************************)
\* C3: load_cache on a missing file and on a file pickle cannot read both
\* return normally and leave the handler with a fresh, empty CacheObject.
C3_RestoreNeverFails ==
    (last.op = "load" /\ last.file_kind \in {"missing", "corrupt"})
        => /\ ~last.raised
           /\ cache_pc = "ready"
           /\ cacheObject = CacheObjectInit

IsAscending(records) ==
    \A i, j \in DOMAIN records : i < j => records[i].score <= records[j].score

\* C6: a lookup is absent exactly for the query texts never merged; a lookup
\* that follows the first merge(Q, R) of a query returns min(n, |R|) records,
\* each a record of R, ascending by score, the n first of the full sorted list.
C6_LookupAfterMerge ==
    /\ \A q \in Queries, n \in TopNs :
          GetChatNoirResultsByQuery(cacheObject, q, n).absent <=> q \notin merged
    /\ last.op = "lookup" => (last.result.absent <=> last.query \notin merged)
    /\ (last.op = "lookup" /\ last.was_new)
          => LET rs == last.result.records
                 full == GetChatNoirResultsByQuery(
                             cacheObject, last.query, Len(last.records)).records
             IN  /\ ~last.result.absent /\ ~last.result.raised
                 /\ Len(rs) = Min(last.top_n, Len(last.records))
                 /\ \A i \in DOMAIN rs : rs[i] \in Range(last.records)
                 /\ IsAscending(rs)
                 /\ IsAscending(full)
                 /\ rs = SubSeq(full, 1, Len(rs))

\* a lookup of one record right after a first merge of two records of different
\* identifiers that were handed over in descending score order
C6_Witness ==
    /\ last.op = "lookup" /\ last.was_new
    /\ Len(last.records) = 2
    /\ last.records[1].UUID # last.records[2].UUID
    /\ last.records[1].score > last.records[2].score
    /\ last.top_n = 1
    /\ last.result.records = <<last.records[2]>>

IdSet(cache, q) ==
    IF q \in DOMAIN cache.query_dict THEN Range(cache.query_dict[q]) ELSE {}

\* C7: a step merge(Q, B) takes Q's id-set A to A \cup B, and a step that merges
\* the same B into the same Q as the step before it changes neither the id-set
\* nor the id -> record index.
C7_MergeIsUnion ==
    [][last'.op = "merge" =>
         LET q == last'.query
             B == Range(UUIDsOf(last'.records))
         IN  /\ IdSet(cacheObject', q) = IdSet(cacheObject, q) \cup B
             /\ (last.op = "merge" /\ last.query = q
                     /\ last.records = last'.records)
                   => /\ IdSet(cacheObject', q) = IdSet(cacheObject, q)
                      /\ cacheObject'.document_dict = cacheObject.document_dict
       ]_vars

\* a merge that added an identifier to a non-empty id-set holding another one
C7_Witness ==
    /\ last.op = "merge"
    /\ last.before_ids = {"u1"}
    /\ Range(UUIDsOf(last.records)) = {"u2"}
    /\ IdSet(cacheObject, last.query) = {"u1", "u2"}

\* C8: the identifiers stored in each query's entry are pairwise distinct.
C8_IdsDistinct ==
    \A q \in DOMAIN cacheObject.query_dict :
        LET l == cacheObject.query_dict[q] IN
        \A i, j \in DOMAIN l : l[i] = l[j] => i = j

(***************************************************************************)
(* Claims about the Result Filter                                          *)
(***************************************************************************)
Known(rank) == rank.json = "number"

\* the filters as the claims state them
PassesScore(cfg, hit) ==
    ~FilterOn(cfg.score_threshold) \/ ~(hit.score < cfg.score_threshold.num)
PassesSpam(cfg, hit) ==
    \/ ~FilterOn(cfg.spam_rank_threshold)
    \/ ~(Known(hit.spam_rank) /\ hit.spam_rank.num > cfg.spam_rank_threshold.num)
PassesPage(cfg, hit) ==
    \/ ~FilterOn(cfg.page_rank_threshold)
    \/ ~(Known(hit.page_rank) /\ hit.page_rank.num > cfg.page_rank_threshold.num)

HandledHit == hr.pc # "idle"
Accepted == hr.pc \in {"fetching", "stored"}

\* C9: a hit is accepted iff it passes every enabled filter (score below the
\* floor, spam rank above the ceiling, page rank above the ceiling reject; an
\* absent or negative threshold never rejects).
C9_AcceptedIffPassesEnabledFilters ==
    HandledHit =>
        (Accepted <=> /\ PassesScore(config, hr.result)
                      /\ PassesSpam(config, hr.result)
                      /\ PassesPage(config, hr.result))

\* C10: with the spam-rank threshold 5, a hit of unknown spam rank that passes
\* the other filters is accepted and becomes a record of its query, as is a hit
\* of spam rank 3; a hit of spam rank 7 is rejected. The same for the page rank.
C10_UnknownRankPasses ==
    /\ (HandledHit /\ config.spam_rank_threshold = JNum(5))
          => /\ (hr.result.spam_rank \in {JNull, JNum(3)}
                    /\ PassesScore(config, hr.result)
                    /\ PassesPage(config, hr.result))
                  => /\ Accepted
                     /\ hr.pc = "stored" =>
                           \E i \in DOMAIN hr.documents :
                              hr.documents[i].chat_noir_result.UUID = hr.result.uuid
             /\ hr.result.spam_rank = JNum(7) => hr.pc = "rejected"
    /\ (HandledHit /\ config.page_rank_threshold = JNum(5))
          => /\ (hr.result.page_rank \in {JNull, JNum(3)}
                    /\ PassesScore(config, hr.result)
                    /\ PassesSpam(config, hr.result))
                  => Accepted
             /\ (hr.result.page_rank = JNum(7) /\ PassesScore(config, hr.result)
                    /\ PassesSpam(config, hr.result))
                  => hr.pc = "rejected"

(***************************************************************************)
(* Claims about the Fetch Orchestrator                                     *)
(***************************************************************************)
ProcessReturned == pipe_pc \in {"ready", "none"} /\ batches > 0

\* C4: once process() has returned, no document of any processing object of
\* the topic has text None.
C4_NoNullTextAfterProcess ==
    ProcessReturned =>
        \A i \in DOMAIN topic : \A d \in DOMAIN topic[i].documents :
            topic[i].documents[d].chat_noir_result.text # None

\* process() has returned from a batch in which one task was served from the
\* cache and lost a cached record of text None to the pruning, and in which a
\* full-document fetch of another task failed
C4_Witness ==
    /\ pipe_pc = "ready" /\ batches > 0
    /\ \E i, j \in DOMAIN tasks :
          /\ tasks[i].pc = "cached"
          /\ topic[i].documents # <<>>
          /\ Len(topic[i].documents) <
                Len(GetChatNoirResultsByQuery(cacheObject,
                        topic[i].query.query_text, config.docs_per_query).records)
          /\ tasks[j].pc = "returned"
          /\ \E k \in DOMAIN tasks[j].subs :
                /\ tasks[j].subs[k].pc = "stored"
                /\ tasks[j].subs[k].text = None

\* C5: with caching enabled, the cache persisted at the end of a batch holds no
\* record whose text is None.
C5_NoNullTextPersisted ==
    (ProcessReturned /\ config.is_cache_enabled /\ cache_file.kind = "pickle")
        => \A u \in DOMAIN PickleLoad(cache_file).document_dict :
              PickleLoad(cache_file).document_dict[u].text # None

(***************************************************************************)
(* Claims about error handling                                             *)
(***************************************************************************)
\* C11: a hit with an empty document identifier causes no full-document
\* request, the text of its record is None as after a failed fetch, and once
\* process() has returned its record is gone from the document map.
C11_EmptyIdentifierYieldsAbsent ==
    /\ \A i \in DOMAIN tasks : \A k \in DOMAIN tasks[i].subs :
          LET sub == tasks[i].subs[k] IN
          sub.result.uuid = ""
              => /\ sub.pc # "fetching"
                 /\ sub.pc = "stored" => sub.text = None
    /\ ProcessReturned =>
          \A i \in DOMAIN topic : \A d \in DOMAIN topic[i].documents :
              topic[i].documents[d].chat_noir_result.UUID # ""

FailedAttempts(h) == Cardinality({i \in DOMAIN h : h[i].exc \/ h[i].status # 200})

\* C12: no call ends with an exception, and a call returns None only after as
\* many failed attempts (non-200 responses and transport-level exceptions
\* alike) as the budget its counter started from.
C12_ExceptionConsumesOneRetry ==
    \A c \in CallIds :
        /\ calls[c].result # Raised
        /\ calls[c].pc = "failed"
              => FailedAttempts(calls[c].history) >= handler_retries


(***************************************************************************)
(* Claims about a batch                                                    *)
(***************************************************************************)
PassesAll(cfg, hit) ==
    PassesScore(cfg, hit) /\ PassesSpam(cfg, hit) /\ PassesPage(cfg, hit)

RecordOf(sub) ==
    ChatNoirResult(sub.result.uuid, sub.text, sub.result.page_rank,
                   sub.result.spam_rank, sub.result.score)

RecordsOf(documents) == {documents[d].chat_noir_result : d \in DOMAIN documents}

\* C13: with caching disabled, once process() has returned the document map of
\* each query holds exactly the records of the hits of its search response that
\* pass the filter and whose full-document fetch returned text, one per
\* identifier, none with text None.
C13_MapIsAcceptedFetchedHits ==
    (ProcessReturned /\ ~config.is_cache_enabled) =>
        \A i \in DOMAIN topic :
            LET subs == tasks[i].subs
                documents == topic[i].documents
                fetched == {k \in DOMAIN subs :
                               /\ PassesAll(config, subs[k].result)
                               /\ subs[k].text.kind = "data"}
            IN  /\ RecordsOf(documents) = {RecordOf(subs[k]) : k \in fetched}
                /\ \A d, e \in DOMAIN documents :
                      documents[d].chat_noir_result.UUID
                          = documents[e].chat_noir_result.UUID => d = e
                /\ \A d \in DOMAIN documents :
                      documents[d].chat_noir_result.text # None


ProcessReturns == pipe_pc = "running" /\ pipe_pc' = "ready"

\* C14: with caching enabled in two successive process() calls, when the second
\* asks for fewer documents per query than the first returned for a query text
\* of both, the second issues neither a search nor a full-document request for
\* that query and returns records that are a strict subset of the records the
\* first returned for it, ascending by score.
C14_SmallerTopNServedFromCache ==
    [][(ProcessReturns /\ returned.is_cache_enabled /\ config.is_cache_enabled)
          => \A i \in DOMAIN topic : \A j \in DOMAIN returned.objs :
                (/\ topic[i].query.query_text = returned.objs[j].query_text
                 /\ config.docs_per_query < Len(returned.objs[j].documents))
                    => LET second == [d \in DOMAIN topic'[i].documents |->
                                         topic'[i].documents[d].chat_noir_result]
                           first == RecordsOf(returned.objs[j].documents)
                       IN  /\ tasks[i].pc = "cached"
                           /\ tasks[i].subs = <<>>
                           /\ Range(second) \subseteq first
                           /\ Range(second) # first
                           /\ IsAscending(second)
      ]_vars

\* C15: with caching enabled, when a process() call asks for more documents
\* per query than the call before it, which fetched the query text from the
\* service, the later call does not answer that query from the cache alone: it
\* sends the search again (and merges what it gets).
C15_MoreResultsRefetched ==
    (/\ pipe_pc = "running"
     /\ config.is_cache_enabled /\ returned.is_cache_enabled
     /\ returned.docs_per_query < config.docs_per_query)
        => \A i \in DOMAIN topic : \A j \in DOMAIN returned.objs :
              (/\ topic[i].query.query_text = returned.objs[j].query_text
               /\ returned.objs[j].pc = "returned")
                  => tasks[i].pc # "cached"

\* a step of the batch in flight: a response arrives, a task or process() returns
BatchStep ==
    \/ \E i \in DOMAIN tasks :
          \E r \in SearchOutcomes(topic[i].query.query_text,
                                  config.docs_per_query) : search_response(i, r)
    \/ \E i \in DOMAIN tasks : \E k \in DOMAIN tasks[i].subs :
          \E text \in FullDocumentResults : document_response(i, k, text)
    \/ \E i \in DOMAIN tasks : task_return(i)
    \/ process_end

\* the search was absent or errored, or the per-query task raised
QueryFailed(task) == task.pc \in {"skipped", "raised"}
\* the search gave hits, and every hit was rejected, raised or lost its fetch
AllHitsFailed(task) ==
    /\ task.pc = "returned"
    /\ \A k \in DOMAIN task.subs :
          task.subs[k].pc = "stored" => task.subs[k].text = None

SearchAbsent(task) == task.query_response \in {"None", "error"}

\* C17: the step in which a search comes back absent (None, or a response with
\* an error indicator) ends the task of that query and changes neither the
\* documents of any processing object nor the cache nor the cache file, and
\* the batch goes on; such a task never has a sub-task (no full-document
\* request) or a document, and as long as no other task of the batch has
\* merged the same query text, the query text is not in the cache.
C17_AbsentSearchIsNoOp ==
    /\ [][\A i \in DOMAIN tasks :
             (/\ tasks[i].pc = "searching"
              /\ i \in DOMAIN tasks'
              /\ tasks'[i].pc # "searching"
              /\ SearchAbsent(tasks'[i]))
                 => /\ tasks'[i].pc = "skipped"
                    /\ topic' = topic
                    /\ cacheObject' = cacheObject
                    /\ cache_file' = cache_file
                    /\ pipe_pc' = "running"
         ]_vars
    /\ [](\A i \in DOMAIN tasks :
             SearchAbsent(tasks[i])
                 => /\ tasks[i].subs = <<>>
                    /\ topic[i].documents = <<>>
                    /\ (/\ config.is_cache_enabled
                        /\ \A j \in DOMAIN tasks :
                              topic[j].query.query_text = topic[i].query.query_text
                                  => tasks[j].pc # "returned")
                          => topic[i].query.query_text
                                 \notin DOMAIN cacheObject.query_dict)

\* process() has returned with caching enabled from a batch in which the
\* search of one query was absent and another query was fetched and merged
C17_Witness ==
    /\ pipe_pc = "ready" /\ batches > 0 /\ config.is_cache_enabled
    /\ \E i, j \in DOMAIN tasks :
          /\ tasks[i].query_response = "None"
          /\ tasks[i].pc = "skipped"
          /\ topic[i].query.query_text \notin DOMAIN cacheObject.query_dict
          /\ tasks[j].pc = "returned"
          /\ topic[j].documents # <<>>
          /\ topic[j].query.query_text \in DOMAIN cacheObject.query_dict


CleanupReturns == pipe_pc = "ready" /\ pipe_pc' = "none"
Pruned(processing_objects) ==
    \A i \in DOMAIN processing_objects :
        \A d \in DOMAIN processing_objects[i].documents :
            processing_objects[i].documents[d].chat_noir_result.text # None

OpenConnections == conn[1].acquired + conn[2].acquired
\* the r-th request sent through connector c waits for a connection / has got one
WaitsForConnection(c, r) ==
    conn[c].sent - conn[c].waiting < r /\ r <= conn[c].sent
GotConnection(c, r) == r <= conn[c].sent - conn[c].waiting

\* C18: at every moment of a batch at most 30 connections are open in all and
\* at most 30 to the host; a request waits only while 30 are open, no request
\* is dropped (every request sent holds a connection, waits for one or has
\* released one), and every request that waits gets a connection (the first
\* 30 requests of a connector never wait).
C18_ConnectionBudget ==
    /\ [](/\ OpenConnections <= 30
          /\ \A c \in Connectors :
                /\ conn[c].acquired <= 30
                /\ conn[c].waiting > 0 => conn[c].acquired = 30
                /\ conn[c].sent
                      = conn[c].acquired + conn[c].waiting + conn[c].released)
    /\ \A c \in Connectors : \A r \in 31..MaxRequests :
          WaitsForConnection(c, r) ~> GotConnection(c, r)

\* 30 connections are open, a request waits, and a request that waited before
\* has got the connection another one released
C18_Witness ==
    /\ OpenConnections = 30
    /\ \E c \in Connectors :
          /\ conn[c].waiting > 0
          /\ conn[c].released > 0
          /\ GotConnection(c, 31)


(***************************************************************************)
(* Claims about the order of the steps of a batch                          *)
(***************************************************************************)
\* a step of a task of the batch: a response arrives or the task returns
TaskStep ==
    \/ \E i \in DOMAIN tasks :
          \E r \in SearchOutcomes(topic[i].query.query_text,
                                  config.docs_per_query) : search_response(i, r)
    \/ \E i \in DOMAIN tasks : \E k \in DOMAIN tasks[i].subs :
          \E text \in FullDocumentResults : document_response(i, k, text)
    \/ \E i \in DOMAIN tasks : task_return(i)

\* C21: once the pruning of process() has been done, every task of the batch
\* has ended and every sub-task of it too (no search and no full-document
\* request is in flight), no step of a task can follow (so none can add a
\* document), and every document that is left has a text.
C21_PruningAfterAllTasksSettled ==
    ProcessReturned =>
        /\ \A i \in DOMAIN tasks :
              /\ tasks[i].pc \notin {"searching", "gathering"}
              /\ \A k \in DOMAIN tasks[i].subs : tasks[i].subs[k].pc # "fetching"
        /\ ~ENABLED TaskStep
        /\ Pruned(topic)

\* process() has returned from a batch of two tasks that both searched and
\* fetched; one of them had a full-document fetch that came back without text
C21_Witness ==
    /\ pipe_pc = "ready" /\ batches > 0
    /\ \E i, j \in DOMAIN tasks :
          /\ i # j
          /\ tasks[i].pc = "returned" /\ tasks[j].pc = "returned"
          /\ \E k \in DOMAIN tasks[i].subs :
                tasks[i].subs[k].pc = "stored" /\ tasks[i].subs[k].text = None
          /\ \E k \in DOMAIN tasks[j].subs :
                tasks[j].subs[k].pc = "stored" /\ tasks[j].subs[k].text # None
          /\ topic[j].documents # <<>>


(***************************************************************************)
(* Claims about the tasks of a batch and the cache                         *)
(***************************************************************************)
\* C22: with caching enabled, whatever the order in which the tasks of a batch
\* return, the id list of a query text in the cache holds the identifier of
\* every hit a returned task of that query text stored, and every such
\* identifier has its record in document_dict.
C22_NoLostMerge ==
    config.is_cache_enabled =>
        \A i \in DOMAIN tasks :
            tasks[i].pc = "returned" =>
                \A k \in DOMAIN tasks[i].subs :
                    tasks[i].subs[k].pc = "stored" =>
                        /\ tasks[i].subs[k].result.uuid
                              \in IdSet(cacheObject, topic[i].query.query_text)
                        /\ tasks[i].subs[k].result.uuid
                              \in DOMAIN cacheObject.document_dict

\* two tasks of one query text have both returned and merged with caching
\* enabled; one of them stored two hits, the search of the other found nothing
C22_Witness ==
    /\ config.is_cache_enabled
    /\ \E i, j \in DOMAIN tasks :
          /\ i # j
          /\ topic[i].query.query_text = topic[j].query.query_text
          /\ tasks[i].pc = "returned" /\ tasks[j].pc = "returned"
          /\ Len(tasks[i].subs) = 2
          /\ \A k \in DOMAIN tasks[i].subs : tasks[i].subs[k].pc = "stored"
          /\ tasks[j].subs = <<>>


ProcessBegins == pipe_pc = "ready" /\ pipe_pc' = "running"

\* C24: in the step in which process() starts its tasks, a task whose query
\* text the cache holds (caching enabled) ends at once with no search request
\* and no sub-task, its document map holds exactly the records the lookup
\* returns, in that order and whatever the thresholds, and the cache is as
\* before; such a task takes no further step (it never merges), and its
\* documents stay as they are until the pruning.
C24_CacheHitOnlyPopulates ==
    [][/\ ProcessBegins =>
             \A i \in DOMAIN tasks' :
                 LET lookup == GetChatNoirResultsByQuery(cacheObject,
                                   topic'[i].query.query_text,
                                   config.docs_per_query)
                 IN  (config.is_cache_enabled /\ ~lookup.absent /\ ~lookup.raised)
                        => /\ tasks'[i] = Task("cached", "", <<>>)
                           /\ [d \in DOMAIN topic'[i].documents |->
                                  topic'[i].documents[d].chat_noir_result]
                                 = lookup.records
                           /\ cacheObject' = cacheObject
                           /\ cache_file' = cache_file
       /\ pipe_pc = "running" =>
             \A i \in DOMAIN tasks :
                 tasks[i].pc = "cached"
                    => /\ tasks'[i] = tasks[i]
                       /\ pipe_pc' = "running" => topic'[i] = topic[i]
      ]_vars

\* a batch in flight under a spam-rank ceiling of 5 in which a task was served
\* from the cache and holds a cached record of spam rank 7
C24_Witness ==
    /\ pipe_pc = "running"
    /\ config.spam_rank_threshold = JNum(5)
    /\ \E i \in DOMAIN tasks :
          /\ tasks[i].pc = "cached"
          /\ \E d \in DOMAIN topic[i].documents :
                topic[i].documents[d].chat_noir_result.spam_rank = JNum(7)


\* C25: a hit that fails an enabled filter ends its sub-task before any
\* request: it never waits for a text and never has one, no document of its
\* query has its identifier, and with caching enabled neither the id list of
\* its query text nor document_dict takes its record; a sub-task that waits
\* for a text or has stored a record belongs to a hit that passes every
\* enabled filter.
C25_RejectedHitNeverFetched ==
    \A i \in DOMAIN tasks : \A k \in DOMAIN tasks[i].subs :
        LET sub == tasks[i].subs[k]
            query == topic[i].query.query_text
        IN  /\ sub.pc \in {"fetching", "stored"} => PassesAll(config, sub.result)
            /\ ~PassesAll(config, sub.result) =>
                  /\ sub.pc \in {"rejected", "raised"}
                  /\ sub.text = Pending
                  /\ \A d \in DOMAIN topic[i].documents :
                        topic[i].documents[d].chat_noir_result.UUID
                            # sub.result.uuid
                  /\ config.is_cache_enabled =>
                        /\ sub.result.uuid \notin IdSet(cacheObject, query)
                        /\ \A u \in DOMAIN cacheObject.document_dict :
                              \A text \in FullDocumentResults \cup {EmptyDict} :
                                  cacheObject.document_dict[u]
                                      # RecordOf([sub EXCEPT !.text = text])

\* with caching enabled a task has returned and merged after the filter
\* rejected one of its hits and a sibling of that hit fetched its text
C25_Witness ==
    /\ config.is_cache_enabled
    /\ \E i \in DOMAIN tasks :
          /\ tasks[i].pc = "returned"
          /\ \E k, n \in DOMAIN tasks[i].subs :
                /\ tasks[i].subs[k].pc = "rejected"
                /\ ~PassesAll(config, tasks[i].subs[k].result)
                /\ tasks[i].subs[n].pc = "stored"
                /\ tasks[i].subs[n].text = Data("b1")
                /\ tasks[i].subs[n].result.uuid
                      \in IdSet(cacheObject, topic[i].query.query_text)


(***************************************************************************)
(* Claims about a search answered with an error indicator                  *)
(***************************************************************************)
ErrorResponse == [exc |-> FALSE, status |-> 200, body |-> ErrorBody]

\* C26: a 200 response whose body carries an error indicator ends the search
\* call: it is the last response of the call, no attempt follows it (one
\* attempt in all when it answers the first), and the call returns the parsed
\* body. The task that gets it back goes on as one that gets None: it ends
\* with no sub-task, and the step changes no document map, not the cache and
\* not the cache file; the query text of such a task is not in the cache.
C26_ErrorResponseNotRetriedAndSkipped ==
    /\ [](\A c \in CallIds : \A n \in DOMAIN calls[c].history :
             calls[c].history[n] = ErrorResponse
                => /\ n = Len(calls[c].history)
                   /\ calls[c].attempts = n
                   /\ calls[c].pc = "done"
                   /\ calls[c].result = Data(ErrorBody))
    /\ [][\A i \in DOMAIN tasks :
             (/\ tasks[i].pc = "searching"
              /\ calls[i].result \in {None, Data(ErrorBody)}
              /\ i \in DOMAIN tasks'
              /\ tasks'[i].pc # "searching")
                 => /\ tasks'[i].pc = "skipped"
                    /\ tasks'[i].subs = <<>>
                    /\ topic' = topic
                    /\ cacheObject' = cacheObject
                    /\ cache_file' = cache_file
         ]_vars
    /\ [](\A i \in DOMAIN tasks :
             tasks[i].query_response = "error"
                => /\ tasks[i] = Task("skipped", "error", <<>>)
                   /\ topic[i].documents = <<>>
                   /\ config.is_cache_enabled =>
                         topic[i].query.query_text
                             \notin DOMAIN cacheObject.query_dict)

\* process() has returned with caching enabled from a batch whose search was
\* answered with an error indicator, and the cache it wrote lacks the query
C26_Witness ==
    /\ pipe_pc = "ready" /\ batches > 0 /\ config.is_cache_enabled
    /\ \E i \in DOMAIN tasks :
          /\ tasks[i] = Task("skipped", "error", <<>>)
          /\ calls[i] = IdleCall
          /\ cache_file.kind = "pickle"
          /\ topic[i].query.query_text
                \notin DOMAIN PickleLoad(cache_file).query_dict


(***************************************************************************)
(* Claims about the records of the cache                                   *)
(***************************************************************************)
\* the place of the last record of R with the identifier of R[n]
IsLastOfId(R, n) == \A m \in DOMAIN R : R[m].UUID = R[n].UUID => m <= n

\* C27: after merge(Q, R), document_dict holds under every identifier of R the
\* last record of R with that identifier (whatever it held before, whichever
\* query stored that), and the identifier is in Q's id list.
C27_MergeUpsertsLastWriteWins ==
    last.op = "merge" =>
        \A n \in DOMAIN last.records :
            LET u == last.records[n].UUID IN
            /\ u \in DOMAIN cacheObject.document_dict
            /\ IsLastOfId(last.records, n)
                  => cacheObject.document_dict[u] = last.records[n]
            /\ u \in IdSet(cacheObject, last.query)

\* a merge into q2 of two records of identifier u1, of scores 3 and then 1,
\* when q1 had stored a record of u1 before: the index holds the one of score 1
C27_Witness ==
    /\ last.op = "merge" /\ last.query = "q2"
    /\ "u1" \in IdSet(cacheObject, "q1")
    /\ Len(last.records) = 2
    /\ last.records[1].UUID = "u1" /\ last.records[1].score = 3
    /\ last.records[2].UUID = "u1" /\ last.records[2].score = 1
    /\ cacheObject.document_dict["u1"].score = 1


(***************************************************************************)
(* Claims about concurrent calls of the Search Client                      *)
(***************************************************************************)
NonOkResponses(h) ==
    Cardinality({n \in DOMAIN h : ~h[n].exc /\ h[n].status # 200})

\* C28: the counter of a call that sends requests is the handler's budget
\* less the non-200 responses this call has received, whatever the other
\* calls receive: while the call goes on its counter is positive, and it
\* returns None without an exception only when its own non-200 responses
\* number the whole budget; a step changes at most one call, and no step
\* changes the budget the handler holds.
C28_RetryCountersAreCallScoped ==
    /\ [](\A c \in CallIds :
             calls[c].attempts > 0 =>
                /\ calls[c].query_request_counter
                      = handler_retries - NonOkResponses(calls[c].history)
                /\ calls[c].pc = "attempting" => calls[c].query_request_counter > 0
                /\ (calls[c].pc = "failed"
                       /\ \A n \in DOMAIN calls[c].history :
                             ~calls[c].history[n].exc)
                     => NonOkResponses(calls[c].history) = handler_retries)
    /\ [][/\ handler_retries' = handler_retries
          /\ \A c, d \in CallIds :
                (calls'[c] # calls[c] /\ d # c) => calls'[d] = calls[d]
         ]_vars

\* two calls in flight at once have each received three non-200 responses,
\* more in all than the budget of one call, and both go on
C28_Witness ==
    \E c, d \in CallIds :
        /\ c # d
        /\ calls[c].pc = "attempting" /\ calls[d].pc = "attempting"
        /\ NonOkResponses(calls[c].history) = 3
        /\ NonOkResponses(calls[d].history) = 3
        /\ NonOkResponses(calls[c].history) + NonOkResponses(calls[d].history)
              > handler_retries


\* C29: a step get_cache_entry(query, top_n), hit or miss, leaves query_dict
\* (the id list of every query, in its stored order) and document_dict as
\* they were.
C29_LookupIsReadOnly ==
    [][last'.op = "lookup" =>
          /\ cacheObject'.query_dict = cacheObject.query_dict
          /\ cacheObject'.document_dict = cacheObject.document_dict
          /\ cacheObject' = cacheObject
      ]_vars

\* a lookup has returned two records, ascending by score, of a query whose id
\* list holds them in the opposite order
C29_Witness ==
    /\ last.op = "lookup"
    /\ ~last.result.absent /\ ~last.result.raised
    /\ Len(last.result.records) = 2
    /\ last.result.records[1].score < last.result.records[2].score
    /\ cacheObject.query_dict[last.query]
          = <<last.result.records[2].UUID, last.result.records[1].UUID>>


(***************************************************************************)
(* Claims about the cleaned flag                                           *)
(***************************************************************************)
\* a step of the cleaning stage (process() has returned and is not called)
DownstreamStep == pipe_pc = "ready" /\ pipe_pc' = "ready"

\* C30: in a batch in flight the records of a task that was not served from
\* the cache have the flag false; and in every step that is not the cleaning
\* stage's, (merge, restore) a record of document_dict is the record that was
\* there, a record of a document map as it is, or the record the cache file
\* holds; (persist) a file that is written restores to document_dict as it
\* is; (cache hit) the record of a task served from the cache is the record
\* of document_dict, flag and text; (lookup, pruning, the rest) any other
\* record of a document map was in that map before or is new with the flag
\* false.
C30_CleanedFlagPreserved ==
    /\ [](pipe_pc = "running" =>
             \A i \in DOMAIN tasks :
                 tasks[i].pc # "cached" =>
                     \A d \in DOMAIN topic[i].documents :
                         ~topic[i].documents[d].chat_noir_result.is_cleaned)
    /\ [][~DownstreamStep =>
            /\ \A u \in DOMAIN cacheObject'.document_dict :
                  LET c == cacheObject'.document_dict[u] IN
                  \/ /\ u \in DOMAIN cacheObject.document_dict
                     /\ c = cacheObject.document_dict[u]
                  \/ /\ pipe_pc = "running"
                     /\ \E i \in DOMAIN topic : c \in RecordsOf(topic[i].documents)
                  \/ /\ pipe_pc = "none"
                     /\ cache_file.kind = "pickle"
                     /\ u \in DOMAIN PickleLoad(cache_file).document_dict
                     /\ c = PickleLoad(cache_file).document_dict[u]
            /\ cache_file' # cache_file =>
                  /\ cache_file'.kind = "pickle"
                  /\ PickleLoad(cache_file').document_dict
                        = cacheObject.document_dict
            /\ \A i \in DOMAIN topic' : \A d \in DOMAIN topic'[i].documents :
                  LET c == topic'[i].documents[d].chat_noir_result IN
                  IF ProcessBegins
                  THEN /\ tasks'[i].pc = "cached"
                       /\ c.UUID \in DOMAIN cacheObject.document_dict
                       /\ c = cacheObject.document_dict[c.UUID]
                  ELSE \/ /\ i \in DOMAIN topic
                          /\ c \in RecordsOf(topic[i].documents)
                       \/ ~c.is_cleaned
      ]_vars

\* a run finds in the cache file a record the cleaning stage of an earlier
\* run has cleaned, and a task served from the cache holds it, cleaned
C30_Witness ==
    /\ pipe_pc = "running" /\ config.is_cache_enabled
    /\ \E i \in DOMAIN tasks :
          /\ tasks[i].pc = "cached"
          /\ \E d \in DOMAIN topic[i].documents :
                LET c == topic[i].documents[d].chat_noir_result IN
                /\ c.is_cleaned
                /\ c.text = Data("t1")
                /\ c = cacheObject.document_dict[c.UUID]
                /\ cache_file.kind = "pickle"
                /\ c = PickleLoad(cache_file).document_dict[c.UUID]


(***************************************************************************)
(* Claims about the entries of the cache                                   *)
(***************************************************************************)
\* C31: a step merge(Q2, R) leaves the id list of every other query text Q1
\* as it was and changes the result of no lookup(Q1, n): the same records
\* with the same scores in the same order, also when R holds an identifier of
\* Q1's id list.
C31_MergeLeavesOtherQueries ==
    [][last'.op = "merge" =>
          \A Q1 \in Queries \ {last'.query} :
              /\ (Q1 \in DOMAIN cacheObject'.query_dict)
                    = (Q1 \in DOMAIN cacheObject.query_dict)
              /\ IdSet(cacheObject', Q1) = IdSet(cacheObject, Q1)
              /\ \A n \in TopNs :
                    GetChatNoirResultsByQuery(cacheObject', Q1, n)
                        = GetChatNoirResultsByQuery(cacheObject, Q1, n)
      ]_vars


\* C32: every identifier in the id list of a query is a key of document_dict,
\* and no lookup raises for a missing record.
C32_EveryIdHasItsRecord ==
    /\ \A q \in DOMAIN cacheObject.query_dict :
          Range(cacheObject.query_dict[q]) \subseteq DOMAIN cacheObject.document_dict
    /\ \A q \in Queries, n \in TopNs :
          ~GetChatNoirResultsByQuery(cacheObject, q, n).raised
    /\ last.op = "lookup" => ~last.result.raised

\* a lookup has returned the two records of a query whose id list grew by a
\* second merge, while another query is cached too
C32_Witness ==
    /\ last.op = "lookup"
    /\ Len(last.result.records) = 2
    /\ Len(cacheObject.query_dict[last.query]) = 2
    /\ DOMAIN cacheObject.query_dict = Queries
    /\ DOMAIN cacheObject.document_dict = {"u1", "u2"}


(***************************************************************************)
(* Claims about what reaches the network                                   *)
(***************************************************************************)
\* the task has sent a search request (it was not served from the cache)
HasSearched(task) == task.pc \in {"searching", "gathering", "skipped", "returned"}

\* C33: with caching enabled, of the tasks of a batch that have the same query
\* text at most one sends a search request, and at most one has sub-tasks
\* that fetch documents.
C33_OneSearchPerQueryText ==
    (config.is_cache_enabled /\ pipe_pc = "running") =>
        \A i, j \in DOMAIN tasks :
            (i # j /\ topic[i].query.query_text = topic[j].query.query_text)
                => /\ ~(HasSearched(tasks[i]) /\ HasSearched(tasks[j]))
                   /\ ~(tasks[i].subs # <<>> /\ tasks[j].subs # <<>>)


\* C34: with caching enabled, a query text is in the cache only with at least
\* one identifier in its id list, and the query text of a task that returned
\* without storing a record (and no other task of that text stored one) is
\* still absent from the cache, so a later batch searches again.
C34_EmptyResultLeftUncached ==
    config.is_cache_enabled =>
        /\ \A q \in DOMAIN cacheObject.query_dict :
              cacheObject.query_dict[q] # <<>>
        /\ \A i \in DOMAIN tasks :
              (/\ tasks[i].pc = "returned"
               /\ \A j \in DOMAIN tasks :
                     topic[j].query.query_text = topic[i].query.query_text
                         => \A k \in DOMAIN tasks[j].subs :
                               tasks[j].subs[k].pc # "stored")
                  => GetChatNoirResultsByQuery(cacheObject,
                         topic[i].query.query_text,
                         config.docs_per_query).absent


\* the method obj.query.is_phrase_search selects
SearchKind(obj) == IF obj.query.is_phrase_search THEN "phrase" ELSE "simple"

\* C35: with caching disabled there is no cache object and no task is served
\* from a cache; process() starts every task with a search (also in a later
\* batch), a task goes on only when its own search call has ended, and that
\* call is a phrase search iff the query's phrase flag is set; no step writes
\* the cache file or makes a cache.
C35_DisabledCacheIsNeverUsed ==
    /\ []((pipe_pc \in {"ready", "running"} /\ ~config.is_cache_enabled) =>
             /\ cacheObject = NoCacheObject
             /\ cache_pc = "new"
             /\ \A i \in DOMAIN tasks :
                   /\ tasks[i].pc # "cached"
                   /\ tasks[i].pc = "searching" =>
                         IF calls[i].pc = "idle"
                         THEN ENABLED search_call(i)
                         ELSE calls[i].kind = SearchKind(topic[i]))
    /\ [][~config'.is_cache_enabled =>
             /\ cache_file' = cache_file
             /\ cacheObject' = NoCacheObject
             /\ ProcessBegins =>
                   \A i \in DOMAIN tasks' : tasks'[i] = Task("searching", "", <<>>)
             /\ \A i \in DOMAIN tasks :
                   (/\ tasks[i].pc = "searching"
                    /\ i \in DOMAIN tasks'
                    /\ tasks'[i].pc # "searching")
                       => /\ calls[i].pc \in {"done", "failed"}
                          /\ calls[i].attempts >= 1
                          /\ calls[i].kind = SearchKind(topic[i])
         ]_vars

\* with caching disabled, in the second batch of a run a phrase search is in
\* flight after a non-200 response
C35_Witness ==
    /\ ~config.is_cache_enabled
    /\ pipe_pc = "running" /\ batches = 1
    /\ cache_file = MissingFile
    /\ \E i \in DOMAIN tasks :
          /\ tasks[i].pc = "searching"
          /\ topic[i].query.is_phrase_search
          /\ calls[i].pc = "attempting"
          /\ calls[i].kind = "phrase"
          /\ calls[i].attempts = 2


=============================================================================
